---- MODULE Spec2Model ----
(***************************************************************************)
(* HytaleModInstaller: the staging-directory watcher of                    *)
(* src/HytaleModInstaller/watcher.py as a state machine.                   *)
(*                                                                         *)
(* The durable state is the filesystem: the staging, mods, archive and     *)
(* failed directories.  run_watcher runs a reconciliation pass on the main *)
(* thread and then a watchdog observer whose thread runs Handler.on_created*)
(* for every creation event.  The environment creates, finishes, removes   *)
(* files, breaks directories, advances the wall clock and sends SIGINT.    *)
(*                                                                         *)
(* Time: the stability probe is modelled on an idealised clock whose unit  *)
(* is one eighth of a second (half a poll interval): time.sleep(0.25)      *)
(* takes exactly two units and every other statement takes none.           *)
(***************************************************************************)
EXTENDS Integers, Sequences, FiniteSets, TLC

(***************************************************************************)
(* File names.  A name is the sequence of its dot-separated components and *)
(* a component is a sequence of atoms (pieces of text): "mod.jar" is       *)
(* << <<"mod">>, <<"jar">> >>, ".zip" is << <<>>, <<"zip">> >>.            *)
(***************************************************************************)
ModJar == << <<"mod">>, <<"jar">> >>
BundleZip == << <<"bundle">>, <<"zip">> >>
UpperJar == << <<"MOD">>, <<"JAR">> >>
PartialPart == << <<"partial">>, <<"jar">>, <<"part">> >>
DotZip == << <<>>, <<"zip">> >>
NotesTxt == << <<"notes">>, <<"txt">> >>
SubDir == << <<"sub">>, <<"zip">> >>
TmpJar == << <<"mod">>, <<"jar">>, <<"tmp">> >>
CrZip == << <<"bundle">>, <<"zip">>, <<"crdownload">> >>
JarWord == << <<"jar">> >>
NoName == << >>

\* str.lower() on one atom
LowerAtom(a) ==
  CASE a = "MOD" -> "mod"
    [] a = "JAR" -> "jar"
    [] a = "ZIP" -> "zip"
    [] OTHER -> a

\* path.name.lower()
LowerName(n) == [i \in DOMAIN n |-> [j \in DOMAIN n[i] |-> LowerAtom(n[i][j])]]

\* low.endswith("." + ext): a dot precedes the last component, which is ext
EndsWith(n, ext) == Len(n) >= 2 /\ n[Len(n)] = <<ext>>

IGNORE_SUFFIXES == {"part", "tmp", "crdownload"}

\* pathlib's PurePath.suffix: the text from the last dot on, when that dot is
\* neither the first nor the last character of the name; <<>> stands for "".
HasSuffix(n) ==
  /\ Len(n) >= 2
  /\ n[Len(n)] # <<>>
  /\ ~(Len(n) = 2 /\ n[1] = <<>>)

Suffix(n) == IF HasSuffix(n) THEN <<n[Len(n)]>> ELSE <<>>

\* pathlib's PurePath.stem: the name without its suffix
Stem(n) == IF HasSuffix(n) THEN SubSeq(n, 1, Len(n) - 1) ELSE n

\* time.strftime("%Y%m%d-%H%M%S") at wall-clock second t of the day of the run
StampText(t) ==
  CASE t = 1 -> "20260101-000001"
    [] t = 2 -> "20260101-000002"
    [] t = 3 -> "20260101-000003"
    [] t = 4 -> "20260101-000004"
    [] OTHER -> "20260101-000005"

\* f"{path.stem}-{stamp}{path.suffix}": the stamp is appended to the stem's
\* last component, the suffix follows.
Stamped(n, t) ==
  LET st == Stem(n)
      k == Len(st)
  IN  [st EXCEPT ![k] = st[k] \o <<"-", StampText(t)>>] \o Suffix(n)

\* dest.with_suffix(dest.suffix + ".log.txt"): stem + suffix + ".log.txt"
LogName(n) == Stem(n) \o Suffix(n) \o << <<"log">>, <<"txt">> >>

\* the order sorted() puts the staging paths in (code-point order of the names)
SortKey(n) ==
  CASE n = DotZip -> 1
    [] n = UpperJar -> 2
    [] n = BundleZip -> 3
    [] n = CrZip -> 4
    [] n = JarWord -> 5
    [] n = ModJar -> 6
    [] n = TmpJar -> 7
    [] n = NotesTxt -> 8
    [] n = PartialPart -> 9
    [] OTHER -> 10

RECURSIVE SortedSeq(_)
SortedSeq(S) ==
  IF S = {} THEN << >>
  ELSE LET m == CHOOSE x \in S : \A y \in S : SortKey(x) <= SortKey(y)
       IN  <<m>> \o SortedSeq(S \ {m})

(***************************************************************************)
(* File contents.  A blob is opaque bytes (id); a zip archive is its list  *)
(* of members; a sidecar log is its text.                                  *)
(***************************************************************************)
Blob(i) == [tag |-> "blob", id |-> i, members |-> << >>, text |-> << >>]
Zip(ms) == [tag |-> "zip", id |-> 0, members |-> ms, text |-> << >>]
Text(t) == [tag |-> "text", id |-> 0, members |-> << >>, text |-> t]

\* a zip member: Path(member.filename) is (abs, parts); data is its bytes
Member(a, p, d) == [abs |-> a, parts |-> p, data |-> d]

\* a key of the mods directory: a file copied under a name, or an extracted member
CopyKey(n) == [name |-> n, parts |-> << >>]
MemberKey(m) == [name |-> NoName, parts |-> m.parts]

Put(dir, k, c) == [x \in DOMAIN dir \cup {k} |-> IF x = k THEN c ELSE dir[x]]
Del(dir, k) == [x \in DOMAIN dir \ {k} |-> dir[x]]
EmptyDir == [x \in {} |-> Blob(0)]

\* a staging entry: a regular file (with its content, and whether a download
\* is still writing it) or a directory
File(c, g) == [kind |-> "file", content |-> c, growing |-> g]
Dir == [kind |-> "dir", content |-> Blob(0), growing |-> FALSE]

\* the reasons: str(e) of the exception install_file raised
NoReason == [msg |-> "", abs |-> FALSE, parts |-> << >>]
Reason(m) == [msg |-> m, abs |-> FALSE, parts |-> << >>]
TimedOut == Reason("Timed out waiting for download to finish")
UnsafeReason(m) == [msg |-> "Unsafe path in zip: ", abs |-> m.abs, parts |-> m.parts]
BadZipFile == Reason("File is not a zip file")
NotFound == Reason("No such file or directory")
Denied == Reason("Permission denied")


(***************************************************************************)
(* Bounds of the model.                                                    *)
(***************************************************************************)
MaxInitFiles == 2
MaxArrivals == 1
MaxRemovals == 1
MaxClock == 2
MaxMembers == 3
MaxSize == 2

(***************************************************************************)
(* Program constants, in eighths of a second.                              *)
(***************************************************************************)
POLL_STABLE_SECONDS == 16
POLL_TIMEOUT_SECONDS == 480
PollInterval == 2

VARIABLES
  staging,     \* staging directory: name -> entry
  mods,        \* mods directory: key -> content
  archive,     \* archive (success) directory: name -> content
  failed,      \* failed directory: name -> content
  clock,       \* wall-clock second, as time.strftime reads it
  fault,       \* what is broken in the filesystem ("none" when nothing is)
  once,        \* run_watcher's once flag
  mainpc,      \* where the main thread is in run_watcher
  listing,     \* process_existing: sorted(staging_dir.iterdir())
  idx,         \* process_existing: position of the for loop in listing
  obs,         \* the watchdog observer: its thread's state, stop flag, event queue
  ctx,         \* per thread: the per-file handler's position and locals
  interrupted, \* SIGINT has been sent
  arrivals,    \* files created in staging by the environment so far
  removals,    \* files removed from staging by the environment so far
  pnow,        \* stability probe alone: time.time()
  pfile,       \* stability probe alone: the probed file (present, size)
  probe,       \* stability probe alone: locals of wait_for_stable_size
  phist        \* stability probe alone: history of the file (ghost)

fsvars == <<staging, mods, archive, failed>>
envvars == <<clock, fault, interrupted, arrivals, removals>>
mainvars == <<once, mainpc, listing, idx>>
probevars == <<pnow, pfile, probe, phist>>
vars == <<staging, mods, archive, failed, clock, fault, once, mainpc, listing,
          idx, obs, ctx, interrupted, arrivals, removals, pnow, pfile, probe, phist>>

Workers == {"main", "obs"}

(***************************************************************************)
(* is_interesting                                                          *)
(***************************************************************************)
\* the name tested as it is written, without lower()
NameInterestingCaseSensitive(n) ==
  /\ ~(\E s \in IGNORE_SUFFIXES : EndsWith(n, s))
  /\ (EndsWith(n, "jar") \/ EndsWith(n, "zip"))

NameInteresting(n) ==
  LET low == LowerName(n)
  IN  /\ ~(\E s \in IGNORE_SUFFIXES : EndsWith(low, s))
      /\ (EndsWith(low, "jar") \/ EndsWith(low, "zip"))

is_interesting(n) ==
  /\ n \in DOMAIN staging
  /\ staging[n].kind = "file"
  /\ NameInteresting(n)

(***************************************************************************)
(* wait_for_stable_size                                                    *)
(***************************************************************************)
\* lines 29-31: the locals on entry at time now
ProbeEnter(now) ==
  [start |-> now, last_size |-> -1, last_change |-> now, ret |-> "run", wake |-> now]

\* the loop test with the timeout itself still inside the loop
LoopTestInclusive(p, now) == now - p.start <= POLL_TIMEOUT_SECONDS

\* line 33: the loop test
LoopTest(p, now) == now - p.start < POLL_TIMEOUT_SECONDS

\* the quiet-period test with a strict comparison
QuietStrict(p, now) == now - p.last_change > POLL_STABLE_SECONDS

\* line 43: the quiet-period test
Quiet(p, now) == now - p.last_change >= POLL_STABLE_SECONDS

\* a poll that takes a missing file for one that has not changed
PollBodyWaits(p, present, size, now) ==
  IF present /\ size # p.last_size
  THEN [p EXCEPT !.last_size = size, !.last_change = now]
  ELSE IF Quiet(p, now) THEN [p EXCEPT !.ret = "true"] ELSE p

\* lines 34-44: one poll of a file that is present or not, of the given size
PollBody(p, present, size, now) ==
  IF ~present THEN [p EXCEPT !.ret = "false"]
  ELSE IF size # p.last_size
       THEN [p EXCEPT !.last_size = size, !.last_change = now]
       ELSE IF Quiet(p, now) THEN [p EXCEPT !.ret = "true"] ELSE p

\* lines 33-48: the loop test, then the poll, or the final return False
Iteration(p, present, size, now) ==
  IF LoopTest(p, now) THEN PollBody(p, present, size, now)
  ELSE [p EXCEPT !.ret = "false"]

\* one turn of the while loop, or nothing once the call has returned
Turn(p, present, size, now) ==
  IF p.ret # "run" THEN p ELSE Iteration(p, present, size, now)

\* n turns of the loop from time now on, time.sleep(0.25) between two turns,
\* on a file that is there or not and whose size, while a download is writing
\* it, differs at every poll (the turns are split in halves to keep the
\* evaluation shallow; q ranges over the one outcome of the first half, so
\* that it is computed once)
RECURSIVE WaitLoop(_, _, _, _, _)
WaitLoop(p, present, growing, now, n) ==
  IF n = 0 THEN p
  ELSE IF n = 1 THEN Turn(p, present, IF growing THEN now ELSE 0, now)
  ELSE LET h == n \div 2
       IN  CHOOSE r \in { IF q.ret # "run" THEN q
                          ELSE WaitLoop(q, present, growing, now + h * PollInterval, n - h) :
                          q \in {WaitLoop(p, present, growing, now, h)} } : TRUE

\* the turns the loop can take: the last one fails the loop test
MaxTurns == (POLL_TIMEOUT_SECONDS \div PollInterval) + 1

wait_for_stable_size(n) ==
  WaitLoop(ProbeEnter(0), n \in DOMAIN staging,
           n \in DOMAIN staging /\ staging[n].growing, 0, MaxTurns).ret = "true"

(***************************************************************************)
(* safe_extract_zip: the test of one member                                *)
(***************************************************************************)
Range(s) == {s[i] : i \in DOMAIN s}
Unsafe(m) == m.abs \/ ".." \in Range(m.parts)
HasUnsafe(zf) == \E i \in DOMAIN zf : Unsafe(zf[i])


(***************************************************************************)
(* The per-file handler: the try block of Handler.on_created and of the    *)
(* loop body of process_existing, run by thread w on ctx[w].path.          *)
(*   install:     install_file entered (ensure_dirs)                       *)
(*   probe:       inside wait_for_stable_size                              *)
(*   copy:        the .jar branch                                          *)
(*   zip_open, zip_check, zip_extract: safe_extract_zip                    *)
(*   archive:     install_file returned, archive(ok=True) next             *)
(*   fail:        in the except block, archive(ok=False, reason) next      *)
(* inst records how install_file ended in this call of the handler: "no"   *)
(* (it has not), "returned" or "raised"; intr records that SIGINT arrived   *)
(* while this call of the handler was inside wait_for_stable_size.         *)
(***************************************************************************)
IdleCtx ==
  [pc |-> "idle", path |-> NoName, zf |-> << >>, zi |-> 0, reason |-> NoReason,
   inst |-> "no", intr |-> FALSE]

\* the handler starting at the step after the try of another order: archive first
StartCtxArchiveFirst(n) == [IdleCtx EXCEPT !.pc = "archive", !.path = n]

\* lines 133-135 and 178-180: the handler enters install_file
StartCtx(n) == [IdleCtx EXCEPT !.pc = "install", !.path = n]

\* an exception e leaves the try block: the except block runs with reason str(e)
Raised(c, r) ==
  [IdleCtx EXCEPT !.pc = "fail", !.path = c.path, !.reason = r,
                  !.inst = IF c.pc = "archive" THEN "returned" ELSE "raised",
                  !.intr = c.intr]

Raise(w, r) == ctx' = [ctx EXCEPT ![w] = Raised(ctx[w], r)]

Goto(w, pc) == ctx' = [ctx EXCEPT ![w].pc = pc]

\* install_file returns
Installed(c) == [c EXCEPT !.pc = "archive", !.zi = 0, !.zf = << >>, !.inst = "returned"]

\* the handler returns: the for loop of process_existing goes on to the next
\* path, the observer thread to its next event
Return(w) ==
  /\ ctx' = [ctx EXCEPT ![w] = IdleCtx]
  /\ idx' = IF w = "main" THEN idx + 1 ELSE idx
  /\ UNCHANGED <<mainpc, obs>>

\* ensure_dirs raises when a directory is missing and cannot be created
EnsureDirsRaises == fault = "mkdir"

H_Install(w) ==
  /\ ctx[w].pc = "install"
  /\ IF EnsureDirsRaises THEN Raise(w, Denied) ELSE Goto(w, "probe")
  /\ UNCHANGED <<fsvars, envvars, mainvars, obs, probevars>>

\* lines 79-90: where install_file goes once the file is stable
Branch(n) ==
  LET suffix == LowerName(Suffix(n))
  IN  IF suffix = << <<"jar">> >> THEN "copy"
      ELSE IF suffix = << <<"zip">> >> THEN "zip_open"
      ELSE "archive"

\* a probe failure that leaves the file where it is: the handler returns
ProbeFailureLeaves(w) == Return(w)

\* lines 76-77: the probe returned False
ProbeFailure(w) == Raise(w, TimedOut) /\ UNCHANGED <<idx, mainpc, obs>>

H_Probe(w) ==
  /\ ctx[w].pc = "probe"
  /\ IF wait_for_stable_size(ctx[w].path)
     THEN /\ ctx' = [ctx EXCEPT ![w] = IF Branch(ctx[w].path) = "archive"
                                       THEN Installed(ctx[w])
                                       ELSE [ctx[w] EXCEPT !.pc = Branch(ctx[w].path)]]
          /\ UNCHANGED <<idx, mainpc, obs>>
     ELSE ProbeFailure(w)
  /\ UNCHANGED <<fsvars, envvars, once, listing, probevars>>

\* the target without the test of target.exists()
CopyTargetPlain(n) == n

\* a target that is stamped again when the stamped name is taken too
CopyTargetFresh(n) ==
  IF CopyKey(n) \notin DOMAIN mods THEN n
  ELSE IF CopyKey(Stamped(n, clock)) \notin DOMAIN mods THEN Stamped(n, clock)
  ELSE Stamped(Stamped(n, clock), clock)

\* lines 81-84: the collision-safe target in the mods directory
CopyTarget(n) ==
  IF CopyKey(n) \in DOMAIN mods THEN Stamped(n, clock) ELSE n

H_Copy(w) ==
  LET n == ctx[w].path
  IN  /\ ctx[w].pc = "copy"
      /\ IF n \notin DOMAIN staging THEN Raise(w, NotFound) /\ mods' = mods
         ELSE IF fault = "mods_ro" THEN Raise(w, Denied) /\ mods' = mods
         ELSE /\ mods' = Put(mods, CopyKey(CopyTarget(n)), staging[n].content)
              /\ ctx' = [ctx EXCEPT ![w] = Installed(ctx[w])]
      /\ UNCHANGED <<staging, archive, failed, envvars, mainvars, obs, probevars>>

\* line 52: zipfile.ZipFile(zip_path)
H_ZipOpen(w) ==
  LET n == ctx[w].path
  IN  /\ ctx[w].pc = "zip_open"
      /\ IF n \notin DOMAIN staging THEN Raise(w, NotFound)
         ELSE IF staging[n].content.tag # "zip" THEN Raise(w, BadZipFile)
         ELSE ctx' = [ctx EXCEPT ![w].pc = "zip_check", ![w].zi = 1,
                                 ![w].zf = staging[n].content.members]
      /\ UNCHANGED <<fsvars, envvars, mainvars, obs, probevars>>

\* the loop with the test of is_absolute alone
ZipCheckStepAbsOnly(c) ==
  IF c.zi > Len(c.zf) THEN [c EXCEPT !.pc = "zip_extract", !.zi = 1]
  ELSE IF c.zf[c.zi].abs THEN Raised(c, UnsafeReason(c.zf[c.zi]))
       ELSE [c EXCEPT !.zi = c.zi + 1]

\* lines 53-57: one turn of the loop over zf.infolist(); past the last member,
\* line 58 is next
ZipCheckStep(c) ==
  IF c.zi > Len(c.zf) THEN [c EXCEPT !.pc = "zip_extract", !.zi = 1]
  ELSE IF Unsafe(c.zf[c.zi]) THEN Raised(c, UnsafeReason(c.zf[c.zi]))
       ELSE [c EXCEPT !.zi = c.zi + 1]

H_ZipCheck(w) ==
  /\ ctx[w].pc = "zip_check"
  /\ ctx' = [ctx EXCEPT ![w] = ZipCheckStep(ctx[w])]
  /\ UNCHANGED <<fsvars, envvars, mainvars, obs, probevars>>

\* line 58: zf.extractall(dest_dir), one member at a time
H_ZipExtract(w) ==
  LET c == ctx[w]
  IN  /\ c.pc = "zip_extract"
      /\ IF c.zi > Len(c.zf)
         THEN ctx' = [ctx EXCEPT ![w] = Installed(c)] /\ mods' = mods
         ELSE IF fault = "mods_ro" THEN Raise(w, Denied) /\ mods' = mods
         ELSE /\ mods' = Put(mods, MemberKey(c.zf[c.zi]), Blob(c.zf[c.zi].data))
              /\ ctx' = [ctx EXCEPT ![w].zi = c.zi + 1]
      /\ UNCHANGED <<staging, archive, failed, envvars, mainvars, obs, probevars>>

(***************************************************************************)
(* archive(path, ok, reason)                                               *)
(***************************************************************************)
\* the destination without the test of dest.exists()
DestPlain(bucket, n) == n

\* lines 106-109: the collision-safe destination in the bucket
Dest(bucket, n) == IF n \in DOMAIN bucket THEN Stamped(n, clock) ELSE n

\* where archive() raises: at ensure_dirs (line 103), at shutil.move (line
\* 111: the source is gone, or the bucket cannot be written), at write_text
\* (line 115), or nowhere
ArchiveRaisesAt(n, ok, reason) ==
  IF EnsureDirsRaises THEN "ensure"
  ELSE IF n \notin DOMAIN staging THEN "move"
  ELSE IF fault = (IF ok THEN "archive_ro" ELSE "failed_ro") THEN "move"
  ELSE IF reason.msg # "" /\ fault = "sidecar" THEN "sidecar"
  ELSE "none"

ArchiveError(n, at) ==
  IF at = "move" /\ n \notin DOMAIN staging THEN NotFound ELSE Denied

\* the sidecar written before the move: a failing write_text leaves the file
MovedSidecarFirst(at) == at = "none"

\* line 111 is reached and moves the file when nothing raised before or in it
Moved(at) == at \in {"none", "sidecar"}

\* the sidecar named by replacing the suffix: dest.with_suffix(".log.txt")
LogPathReplacing(dest) == Stem(dest) \o << <<"log">>, <<"txt">> >>

\* line 114: the sidecar's name
LogPath(dest) == LogName(dest)

\* lines 111-115: the bucket after the move (at says whether write_text raised)
MovedInto(bucket, n, reason, at) ==
  LET dest == Dest(bucket, n)
      moved == Put(bucket, dest, staging[n].content)
  IN  IF reason.msg # "" /\ at = "none"
      THEN Put(moved, LogPath(dest), Text(<<reason, "\n">>))
      ELSE moved

\* an exception of archive(ok=False) that nothing catches: it ends the thread
SecondaryFailureEscapes(w) ==
  /\ ctx' = [ctx EXCEPT ![w] = IdleCtx]
  /\ idx' = idx
  /\ mainpc' = IF w = "main" THEN "crashed" ELSE mainpc
  /\ obs' = IF w = "obs" THEN [obs EXCEPT !.state = "exited"] ELSE obs

\* lines 163-164 and 208-209: the exception of archive(ok=False) is printed
SecondaryFailure(w) == Return(w)

H_Archive(w) ==
  LET n == ctx[w].path
      ok == ctx[w].pc = "archive"
      reason == ctx[w].reason
      at == ArchiveRaisesAt(n, ok, reason)
  IN  /\ ctx[w].pc \in {"archive", "fail"}
      /\ staging' = IF Moved(at) THEN Del(staging, n) ELSE staging
      /\ archive' = IF Moved(at) /\ ok THEN MovedInto(archive, n, reason, at) ELSE archive
      /\ failed' = IF Moved(at) /\ ~ok THEN MovedInto(failed, n, reason, at) ELSE failed
      /\ IF at = "none" THEN Return(w)
         ELSE IF ok THEN Raise(w, ArchiveError(n, at)) /\ UNCHANGED <<idx, mainpc, obs>>
         ELSE SecondaryFailure(w)
      /\ UNCHANGED <<mods, envvars, once, listing, probevars>>

HandlerStep(w) ==
  \/ H_Install(w)
  \/ H_Probe(w)
  \/ H_Copy(w)
  \/ H_ZipOpen(w)
  \/ H_ZipCheck(w)
  \/ H_ZipExtract(w)
  \/ H_Archive(w)

(***************************************************************************)
(* run_watcher and process_existing on the main thread.                    *)
(*   start: line 213   list: line 175   loop: lines 175-209                *)
(*   ret: line 224     sleep: lines 235-237   stop: line 239               *)
(*   join: line 240    exit: returned   crashed: an exception escaped      *)
(*   killed: KeyboardInterrupt escaped                                     *)
(***************************************************************************)
Alive == mainpc \notin {"exit", "crashed", "killed"}

MainEnsure ==
  /\ mainpc = "start"
  /\ mainpc' = IF EnsureDirsRaises THEN "crashed" ELSE "list"
  /\ UNCHANGED <<fsvars, envvars, once, listing, idx, obs, ctx, probevars>>

\* observer.start() moved before the reconciliation pass
MainListObserverFirst ==
  /\ mainpc = "list"
  /\ listing' = SortedSeq(DOMAIN staging)
  /\ idx' = 1
  /\ mainpc' = "loop"
  /\ obs' = [obs EXCEPT !.state = "running"]
  /\ UNCHANGED <<fsvars, envvars, once, ctx, probevars>>

\* a listing that raises when the staging directory holds nothing
MainListRaisesOnEmpty ==
  /\ mainpc = "list"
  /\ listing' = SortedSeq(DOMAIN staging)
  /\ idx' = 1
  /\ mainpc' = IF staging = EmptyDir THEN "crashed" ELSE "loop"
  /\ UNCHANGED <<fsvars, envvars, once, obs, ctx, probevars>>

\* lines 172-175: process_existing lists the staging directory
MainList ==
  /\ mainpc = "list"
  /\ listing' = SortedSeq(DOMAIN staging)
  /\ idx' = 1
  /\ mainpc' = "loop"
  /\ UNCHANGED <<fsvars, envvars, once, obs, ctx, probevars>>

\* the for statement takes the next path; is_interesting decides whether the
\* handler runs on it
MainLoop ==
  /\ mainpc = "loop"
  /\ ctx["main"].pc = "idle"
  /\ IF idx > Len(listing)
     THEN mainpc' = "ret" /\ UNCHANGED <<idx, ctx>>
     ELSE IF is_interesting(listing[idx])
          THEN ctx' = [ctx EXCEPT !["main"] = StartCtx(listing[idx])]
               /\ UNCHANGED <<idx, mainpc>>
          ELSE idx' = idx + 1 /\ UNCHANGED <<ctx, mainpc>>
  /\ UNCHANGED <<fsvars, envvars, once, listing, obs, probevars>>

MainHandler ==
  /\ mainpc = "loop"
  /\ HandlerStep("main")

\* the observer started whatever the once flag says
MainOnceWatches ==
  /\ mainpc = "ret"
  /\ mainpc' = "sleep"
  /\ obs' = [obs EXCEPT !.state = "running"]
  /\ listing' = << >>
  /\ idx' = 0
  /\ UNCHANGED <<fsvars, envvars, once, ctx, probevars>>

\* lines 224-233: return when once, else start the observer
MainOnce ==
  /\ mainpc = "ret"
  /\ IF once
     THEN mainpc' = "exit" /\ obs' = obs
     ELSE mainpc' = "sleep" /\ obs' = [obs EXCEPT !.state = "running"]
  /\ listing' = << >>
  /\ idx' = 0
  /\ UNCHANGED <<fsvars, envvars, once, ctx, probevars>>

MainStop ==
  /\ mainpc = "stop"
  /\ obs' = [obs EXCEPT !.stop = TRUE]
  /\ mainpc' = "join"
  /\ UNCHANGED <<fsvars, envvars, once, listing, idx, ctx, probevars>>

MainJoin ==
  /\ mainpc = "join"
  /\ obs.state = "exited"
  /\ mainpc' = "exit"
  /\ UNCHANGED <<fsvars, envvars, once, listing, idx, obs, ctx, probevars>>

(***************************************************************************)
(* The observer thread: it takes the creation events one at a time and     *)
(* calls Handler.on_created; once stopped it finishes the call it is in    *)
(* and exits.                                                              *)
(***************************************************************************)
Event(n, d) == [src |-> n, is_directory |-> d]

\* lines 126-131
ObsDispatch ==
  /\ obs.state = "running"
  /\ ~obs.stop
  /\ ctx["obs"].pc = "idle"
  /\ obs.queue # << >>
  /\ LET ev == Head(obs.queue)
     IN  /\ obs' = [obs EXCEPT !.queue = Tail(obs.queue)]
         /\ IF ~ev.is_directory /\ is_interesting(ev.src)
            THEN ctx' = [ctx EXCEPT !["obs"] = StartCtx(ev.src)]
            ELSE ctx' = ctx
  /\ UNCHANGED <<fsvars, envvars, mainvars, probevars>>

ObsHandler ==
  /\ obs.state = "running"
  /\ HandlerStep("obs")

ObsExit ==
  /\ obs.state = "running"
  /\ obs.stop
  /\ ctx["obs"].pc = "idle"
  /\ obs' = [obs EXCEPT !.state = "exited", !.queue = << >>]
  /\ UNCHANGED <<fsvars, envvars, mainvars, ctx, probevars>>

(***************************************************************************)
(* The environment.  The wall clock and the fault are read by a few steps  *)
(* only: a tick or a fault that no step is about to read is taken when the *)
(* next such step is reached, which gives the same runs with fewer states. *)
(* A file created before the listing is taken is a file of the initial     *)
(* staging directory.                                                      *)
(***************************************************************************)
ReadsClock == \E w \in Workers : ctx[w].pc \in {"copy", "archive", "fail"}

ReadsFault ==
  \/ mainpc = "start"
  \/ \E w \in Workers : ctx[w].pc \in {"install", "copy", "zip_extract", "archive", "fail"}

SafeZip == << Member(FALSE, <<"a.txt">>, 5), Member(FALSE, <<"sub", "b.txt">>, 6) >>
UnsafeZip == << Member(FALSE, <<"a.txt">>, 5),
                Member(FALSE, <<"..", "..", "etc", "passwd">>, 7) >>

InitNames == {ModJar, BundleZip, PartialPart, DotZip}
ArrivalNames == {ModJar, PartialPart, SubDir}

EntriesFor(n) ==
  CASE n = ModJar -> {File(Blob(1), FALSE), File(Blob(1), TRUE)}
    [] n = BundleZip -> {File(Zip(SafeZip), FALSE), File(Zip(UnsafeZip), FALSE),
                         File(Blob(2), FALSE)}
    [] n = PartialPart -> {File(Blob(3), TRUE)}
    [] n = DotZip -> {File(Zip(SafeZip), FALSE)}
    [] n = SubDir -> {Dir}
    [] OTHER -> {File(Blob(4), FALSE)}

AllEntries == UNION {EntriesFor(n) : n \in InitNames \cup ArrivalNames}

FaultKinds == {"mkdir", "mods_ro", "archive_ro", "failed_ro", "sidecar"}

\* a file or directory appears in staging; a running observer queues the event
ExternalCreate ==
  /\ Alive
  /\ mainpc \notin {"start", "list"}
  /\ arrivals < MaxArrivals
  /\ \E n \in ArrivalNames \ DOMAIN staging : \E e \in EntriesFor(n) :
       /\ staging' = Put(staging, n, e)
       /\ obs' = IF obs.state = "running" /\ ~obs.stop
                 THEN [obs EXCEPT !.queue = Append(obs.queue, Event(n, e.kind = "dir"))]
                 ELSE obs
  /\ arrivals' = arrivals + 1
  /\ UNCHANGED <<mods, archive, failed, clock, fault, interrupted, removals,
                 mainvars, ctx, probevars>>

\* the download that writes a file finishes
ExternalFinish ==
  /\ Alive
  /\ \E n \in DOMAIN staging :
       /\ staging[n].growing
       /\ staging' = [staging EXCEPT ![n].growing = FALSE]
  /\ UNCHANGED <<mods, archive, failed, envvars, mainvars, obs, ctx, probevars>>

\* somebody else removes an entry from staging
ExternalRemove ==
  /\ Alive
  /\ removals < MaxRemovals
  /\ \E n \in DOMAIN staging : staging' = Del(staging, n)
  /\ removals' = removals + 1
  /\ UNCHANGED <<mods, archive, failed, clock, fault, interrupted, arrivals,
                 mainvars, obs, ctx, probevars>>

InjectFault ==
  /\ Alive
  /\ ReadsFault
  /\ fault = "none"
  /\ fault' \in FaultKinds
  /\ UNCHANGED <<fsvars, clock, interrupted, arrivals, removals, mainvars, obs, ctx,
                 probevars>>

Tick ==
  /\ Alive
  /\ ReadsClock
  /\ clock < MaxClock
  /\ clock' = clock + 1
  /\ UNCHANGED <<fsvars, fault, interrupted, arrivals, removals, mainvars, obs, ctx,
                 probevars>>

\* SIGINT: KeyboardInterrupt is raised in the main thread.  Lines 235-238
\* catch it in the idle loop; anywhere else it escapes run_watcher (except
\* Exception does not catch it) and the process ends.
Interrupt ==
  /\ Alive
  /\ ~interrupted
  /\ mainpc \notin {"stop", "join"}
  /\ interrupted' = TRUE
  /\ IF mainpc = "sleep"
     THEN /\ mainpc' = "stop"
          /\ ctx' = [ctx EXCEPT !["obs"].intr = (ctx["obs"].pc = "probe")]
     ELSE mainpc' = "killed" /\ ctx' = [ctx EXCEPT !["main"] = IdleCtx]
  /\ listing' = IF mainpc = "sleep" THEN listing ELSE << >>
  /\ idx' = IF mainpc = "sleep" THEN idx ELSE 0
  /\ UNCHANGED <<fsvars, clock, fault, arrivals, removals, once, obs, probevars>>

(***************************************************************************)
(* The run of run_watcher.                                                 *)
(***************************************************************************)
Old == Blob(9)

InitStagings ==
  UNION {{f \in [S -> AllEntries] : \A n \in S : f[n] \in EntriesFor(n)} :
         S \in {T \in SUBSET InitNames : Cardinality(T) <= MaxInitFiles}}

ProbeIdle ==
  /\ pnow = 0
  /\ pfile = [present |-> TRUE, size |-> 0]
  /\ probe = [ProbeEnter(0) EXCEPT !.ret = "idle"]
  /\ phist = [T |-> 0, grows |-> TRUE, changed |-> TRUE]

Init ==
  /\ staging \in InitStagings
  /\ \E pre \in BOOLEAN :
       /\ mods = IF pre THEN Put(EmptyDir, CopyKey(ModJar), Old) ELSE EmptyDir
       /\ archive = IF pre THEN Put(Put(EmptyDir, ModJar, Old), BundleZip, Old)
                    ELSE EmptyDir
       /\ failed = archive
  /\ clock = 1
  /\ fault = "none"
  /\ once \in BOOLEAN
  /\ mainpc = "start"
  /\ listing = << >>
  /\ idx = 0
  /\ obs = [state |-> "none", stop |-> FALSE, queue |-> << >>]
  /\ ctx = [w \in Workers |-> IdleCtx]
  /\ interrupted = FALSE
  /\ arrivals = 0
  /\ removals = 0
  /\ ProbeIdle

Next ==
  \/ MainEnsure
  \/ MainList
  \/ MainLoop
  \/ MainHandler
  \/ MainOnce
  \/ MainStop
  \/ MainJoin
  \/ ObsDispatch
  \/ ObsHandler
  \/ ObsExit
  \/ ExternalCreate
  \/ ExternalFinish
  \/ ExternalRemove
  \/ InjectFault
  \/ Tick
  \/ Interrupt

Spec == Init /\ [][Next]_vars


(***************************************************************************)
(* wait_for_stable_size alone, on one file that the environment writes,    *)
(* truncates and removes at any time.  probe.wake is the time at which     *)
(* time.sleep(0.25) returns and the loop test is made.  The probe only     *)
(* tests sizes for equality with the size it polled last, so the sizes     *)
(* 0 .. MaxSize stand for "the size polled last" and "other sizes": a file *)
(* that only grows never returns to the size polled last.  phist records   *)
(* the time T of the last change of the file's size, whether no change so  *)
(* far returned to the size the probe polled last (grows), and whether     *)
(* every poll so far saw a size different from the one before (changed).   *)
(***************************************************************************)
MainIdle ==
  /\ staging = EmptyDir
  /\ mods = EmptyDir
  /\ archive = EmptyDir
  /\ failed = EmptyDir
  /\ clock = 1
  /\ fault = "none"
  /\ once = TRUE
  /\ mainpc = "exit"
  /\ listing = << >>
  /\ idx = 0
  /\ obs = [state |-> "none", stop |-> FALSE, queue |-> << >>]
  /\ ctx = [w \in Workers |-> IdleCtx]
  /\ interrupted = FALSE
  /\ arrivals = 0
  /\ removals = 0

mainside == <<fsvars, envvars, mainvars, obs, ctx>>

ProbeInit ==
  /\ MainIdle
  /\ pnow = 0
  /\ pfile \in [present : {TRUE}, size : 0 .. MaxSize]
  /\ probe = ProbeEnter(0)
  /\ phist = [T |-> 0, grows |-> TRUE, changed |-> TRUE]

\* the loop test and, when it passes, one poll; then time.sleep(0.25)
PPoll ==
  /\ probe.ret = "run"
  /\ pnow = probe.wake
  /\ probe' = [Iteration(probe, pfile.present, pfile.size, pnow)
                 EXCEPT !.wake = pnow + PollInterval]
  /\ phist' = IF LoopTest(probe, pnow) /\ pfile.present
              THEN [phist EXCEPT !.changed = phist.changed /\ pfile.size # probe.last_size]
              ELSE phist
  /\ UNCHANGED <<pnow, pfile, mainside>>

\* an eighth of a second passes while the probe sleeps
PTick ==
  /\ probe.ret = "run"
  /\ pnow < probe.wake
  /\ pnow' = pnow + 1
  /\ UNCHANGED <<pfile, probe, phist, mainside>>

\* the file's size changes; a change at the very instant of a poll is one the
\* poll sees (a later one falls on the next eighth of a second)
PWrite ==
  /\ probe.ret = "run"
  /\ pfile.present
  /\ pnow + PollInterval > probe.wake
  /\ \E sz \in (0 .. MaxSize) \ {pfile.size} :
       /\ pfile' = [pfile EXCEPT !.size = sz]
       /\ phist' = [phist EXCEPT !.T = pnow, !.grows = phist.grows /\ sz # probe.last_size]
  /\ UNCHANGED <<pnow, probe, mainside>>

\* the file is removed
PRemove ==
  /\ probe.ret = "run"
  /\ pfile.present
  /\ pfile' = [pfile EXCEPT !.present = FALSE]
  /\ UNCHANGED <<pnow, probe, phist, mainside>>

ProbeNext == PPoll \/ PTick \/ PWrite \/ PRemove

ProbeSpec == ProbeInit /\ [][ProbeNext]_vars


(***************************************************************************)
(* Claims about wait_for_stable_size (under ProbeSpec).                    *)
(***************************************************************************)
\* the first poll at or after time t (polls are PollInterval apart from start)
FirstPollFrom(t) == ((t + PollInterval - 1) \div PollInterval) * PollInterval

C7_Timeout ==
  /\ (probe.ret \in {"true", "false"} /\ phist.changed /\ pfile.present) =>
       /\ probe.ret = "false"
       /\ pnow - probe.start = POLL_TIMEOUT_SECONDS
  /\ probe.ret = "run" =>
       /\ pnow <= probe.wake
       /\ probe.wake - probe.start <= POLL_TIMEOUT_SECONDS

\* the probe has failed at the timeout on a file that changed at every poll
C7_Witness ==
  /\ probe.ret = "false"
  /\ phist.changed
  /\ pfile.present
  /\ pnow = POLL_TIMEOUT_SECONDS


(***************************************************************************)
(* safe_extract_zip alone (and what the handler does after it): the        *)
(* handler of the main thread has just opened an archive of any members.   *)
(***************************************************************************)
MemberPool ==
  { Member(FALSE, <<"a.txt">>, 5),
    Member(FALSE, <<"sub", "b.txt">>, 6),
    Member(FALSE, <<"..", "evil">>, 7),
    Member(FALSE, <<"sub", "..", "..", "x">>, 7),
    Member(TRUE, <<"etc", "passwd">>, 8) }

Archives == UNION {[1 .. k -> MemberPool] : k \in 0 .. MaxMembers}

ExtractInit ==
  /\ \E zf \in Archives :
       /\ staging = Put(EmptyDir, BundleZip, File(Zip(zf), FALSE))
       /\ ctx = [w \in Workers |->
                  IF w = "main"
                  THEN [IdleCtx EXCEPT !.pc = "zip_check", !.path = BundleZip,
                                       !.zf = zf, !.zi = 1]
                  ELSE IdleCtx]
  /\ mods \in {EmptyDir, Put(EmptyDir, MemberKey(Member(FALSE, <<"a.txt">>, 5)), Old)}
  /\ archive = EmptyDir
  /\ failed = EmptyDir
  /\ clock = 1
  /\ fault = "none"
  /\ once = TRUE
  /\ mainpc = "loop"
  /\ listing = <<BundleZip>>
  /\ idx = 1
  /\ obs = [state |-> "none", stop |-> FALSE, queue |-> << >>]
  /\ interrupted = FALSE
  /\ arrivals = 0
  /\ removals = 0
  /\ ProbeIdle

ExtractNext ==
  \/ MainHandler
  \/ MainLoop
  \/ InjectFault

ExtractSpec == ExtractInit /\ [][ExtractNext]_vars

\* C1: while safe_extract_zip runs on an archive with an unsafe member (an
\* absolute path or a ".." segment, at any position), no step changes the mods
\* directory, the extraction is never begun, and the call ends by raising the
\* unsafe-path error.
C1_RejectAtomic ==
  [][(ctx["main"].pc \in {"zip_check", "zip_extract"} /\ HasUnsafe(ctx["main"].zf)) =>
       /\ mods' = mods
       /\ ctx'["main"].pc \in {"zip_check", "fail"}
       /\ ctx'["main"].pc = "fail" => ctx'["main"].reason.msg = "Unsafe path in zip: "]_vars

\* an archive whose first member is safe and a later one is not was rejected
\* with the mods directory still empty
C1_Witness ==
  /\ ctx["main"].pc = "fail"
  /\ ctx["main"].reason.msg = "Unsafe path in zip: "
  /\ ".." \in Range(ctx["main"].reason.parts)
  /\ BundleZip \in DOMAIN staging
  /\ Len(staging[BundleZip].content.members) >= 2
  /\ ~Unsafe(staging[BundleZip].content.members[1])
  /\ mods = EmptyDir


(***************************************************************************)
(* The threads run: a thread that can take a step eventually takes one.    *)
(***************************************************************************)
MainNext ==
  \/ MainEnsure
  \/ MainList
  \/ MainLoop
  \/ MainHandler
  \/ MainOnce
  \/ MainStop
  \/ MainJoin

ObsNext ==
  \/ ObsDispatch
  \/ ObsHandler
  \/ ObsExit

\* the runs of run_watcher on empty mods, archive and failed directories,
\* within one second of the clock and with downloads that do not finish
WatchInit == Init /\ mods = EmptyDir

WatchNext ==
  \/ MainNext
  \/ ObsNext
  \/ ExternalCreate
  \/ ExternalRemove
  \/ InjectFault
  \/ Interrupt

FairSpec == WatchInit /\ [][WatchNext]_vars /\ WF_vars(MainNext) /\ WF_vars(ObsNext)

(***************************************************************************)
(* Claims about the pipeline (under Spec and FairSpec).                    *)
(***************************************************************************)
\* <stem>-<YYYYMMDD-HHMMSS><ext> for the names of the model, written out
ExpectedStamped(n, t) ==
  CASE n = ModJar -> << <<"mod", "-", StampText(t)>>, <<"jar">> >>
    [] n = BundleZip -> << <<"bundle", "-", StampText(t)>>, <<"zip">> >>
    [] n = UpperJar -> << <<"MOD", "-", StampText(t)>>, <<"JAR">> >>
    [] n = DotZip -> << << >>, <<"zip", "-", StampText(t)>> >>
    [] OTHER -> n

\* <name>.log.txt
SidecarOf(m) == m \o << <<"log">>, <<"txt">> >>

FailedUsable == fault \notin {"mkdir", "failed_ro", "sidecar"}

\* thread w's handler takes a step (the arrival of SIGINT is none)
Stepped(w) == ctx'[w] # ctx[w] /\ interrupted' = interrupted

\* the file n was moved by this step into the bucket (before: b, after: b2)
\* under its own or its timestamped name, with the sidecar holding the reason
RoutedWithSidecar(n, b, b2, reason) ==
  /\ n \notin DOMAIN staging'
  /\ \E m \in {n, ExpectedStamped(n, clock)} :
       /\ m \in DOMAIN b2
       /\ n \in DOMAIN staging => b2[m] = staging[n].content
       /\ SidecarOf(m) \in DOMAIN b2
       /\ b2[SidecarOf(m)] = Text(<<reason, "\n">>)

HandlesUnsafeZip(w) ==
  /\ ctx[w].pc # "idle"
  /\ ctx[w].path \in DOMAIN staging
  /\ staging[ctx[w].path].content.tag = "zip"
  /\ HasUnsafe(staging[ctx[w].path].content.members)

\* C2 as stated: whenever the install step raised and the failed directory is
\* usable, the handler's next step moves the source into failed and writes the
\* sidecar <moved name>.log.txt with the reason and a newline.
C2_AsStated ==
  [][\A w \in Workers :
       (ctx[w].pc = "fail" /\ ctx[w].inst = "raised" /\ FailedUsable /\ Stepped(w)) =>
         /\ ctx'[w].pc = "idle"
         /\ RoutedWithSidecar(ctx[w].path, failed, failed', ctx[w].reason)]_vars

\* C2 (amended): whenever the install step raises, the except block is entered
\* with a non-empty reason; if then the failed directory is usable and the
\* source file is still in staging, the handler ends with the source moved out
\* of staging into failed and the sidecar <moved name>.log.txt holding the
\* reason and a newline; no step taken while an unsafe archive is being handled
\* changes the mods directory.
C2_FailureRouted ==
  [][\A w \in Workers :
       /\ (ctx[w].inst = "no" /\ ctx'[w].inst = "raised") =>
            /\ ctx'[w].pc = "fail"
            /\ ctx'[w].reason.msg # ""
       /\ (ctx[w].pc = "fail" /\ ctx[w].inst = "raised" /\ FailedUsable
           /\ ctx[w].path \in DOMAIN staging /\ Stepped(w)) =>
            /\ ctx'[w].pc = "idle"
            /\ RoutedWithSidecar(ctx[w].path, failed, failed', ctx[w].reason)
       /\ HandlesUnsafeZip(w) => mods' = mods]_vars

\* an unsafe archive is in failed with its sidecar naming the unsafe path,
\* nothing of it is in mods and it is no longer in staging
C2_Witness ==
  /\ BundleZip \in DOMAIN failed
  /\ failed[BundleZip].tag = "zip"
  /\ HasUnsafe(failed[BundleZip].members)
  /\ SidecarOf(BundleZip) \in DOMAIN failed
  /\ failed[SidecarOf(BundleZip)].text[1].msg = "Unsafe path in zip: "
  /\ mods = EmptyDir
  /\ BundleZip \notin DOMAIN staging

\* where archive(ok=False) raises on file n, read from the state
RaisesAtEnsure == fault = "mkdir"
RaisesAtMove(n) == fault # "mkdir" /\ (n \notin DOMAIN staging \/ fault = "failed_ro")
RaisesAtSidecar(n) == fault = "sidecar" /\ n \in DOMAIN staging

\* C4 as stated: when archive-as-failure raises (directory creation, move or
\* sidecar write), the source file is in staging afterwards.
C4_AsStated ==
  [][\A w \in Workers :
       (/\ ctx[w].pc = "fail"
        /\ Stepped(w)
        /\ (RaisesAtEnsure \/ RaisesAtMove(ctx[w].path) \/ RaisesAtSidecar(ctx[w].path))) =>
         ctx[w].path \in DOMAIN staging']_vars

\* C4 (amended): when archive-as-failure raises at directory creation or at the
\* move, the step changes no directory (a source still in staging stays there
\* for the next pass); when it raises at the sidecar write, the source has
\* already been moved into failed, without a sidecar, and is no longer in
\* staging.  In every case the handler just returns.
C4_SecondaryFailure ==
  [][\A w \in Workers :
       (ctx[w].pc = "fail" /\ Stepped(w)) =>
         /\ (RaisesAtEnsure \/ RaisesAtMove(ctx[w].path)) =>
              /\ UNCHANGED <<staging, mods, archive, failed>>
              /\ ctx'[w].pc = "idle"
         /\ RaisesAtSidecar(ctx[w].path) =>
              /\ ctx'[w].pc = "idle"
              /\ ctx[w].path \notin DOMAIN staging'
              /\ \E m \in {ctx[w].path, ExpectedStamped(ctx[w].path, clock)} :
                   /\ m \in DOMAIN failed'
                   /\ failed'[m] = staging[ctx[w].path].content
                   /\ DOMAIN failed' = DOMAIN failed \cup {m}]_vars

\* a file whose install failed sits in failed without a sidecar (the sidecar
\* write raised), and another failure left its file in staging
C4_Witness ==
  /\ fault = "sidecar"
  /\ BundleZip \in DOMAIN failed
  /\ failed[BundleZip].tag = "blob"
  /\ failed[BundleZip].id = 2
  /\ SidecarOf(BundleZip) \notin DOMAIN failed
  /\ BundleZip \notin DOMAIN staging

\* C5 as stated: after the probe timed out on a file that is still there, the
\* handler leaves the file in staging and moves nothing to archive or failed.
C5_AsStated ==
  [][\A w \in Workers :
       (/\ ctx[w].pc = "fail"
        /\ ctx[w].reason = TimedOut
        /\ ctx[w].path \in DOMAIN staging
        /\ Stepped(w)) =>
         /\ ctx[w].path \in DOMAIN staging'
         /\ archive' = archive
         /\ failed' = failed]_vars

\* C5 (amended): when the probe times out on a file that is still there (a
\* download still writing it), install_file raises "Timed out waiting for
\* download to finish"; the handler then moves the file, if still there, out of
\* staging into failed with a sidecar holding that reason when the failed
\* directory is usable, and leaves it in staging only when archive-as-failure
\* raises at directory creation or at the move.
C5_TimeoutRouted ==
  [][\A w \in Workers :
       /\ (/\ ctx[w].pc = "probe"
           /\ Stepped(w)
           /\ ctx[w].path \in DOMAIN staging
           /\ staging[ctx[w].path].growing) =>
            /\ ctx'[w].pc = "fail"
            /\ ctx'[w].reason = TimedOut
            /\ UNCHANGED <<staging, mods, archive, failed>>
       /\ (/\ ctx[w].pc = "fail"
           /\ ctx[w].reason = TimedOut
           /\ ctx[w].path \in DOMAIN staging
           /\ Stepped(w)) =>
            IF FailedUsable
            THEN RoutedWithSidecar(ctx[w].path, failed, failed', TimedOut)
            ELSE fault \in {"mkdir", "failed_ro"} => staging' = staging]_vars

\* the download that timed out is in failed with the time-out reason beside it
C5_Witness ==
  /\ ModJar \in DOMAIN failed
  /\ failed[ModJar] = Blob(1)
  /\ SidecarOf(ModJar) \in DOMAIN failed
  /\ failed[SidecarOf(ModJar)] = Text(<<TimedOut, "\n">>)
  /\ ModJar \notin DOMAIN staging

\* C8: the .jar copy into mods and the move into archive or failed keep the
\* source's name when no file of that name is there; when one is and the
\* timestamped name is free, the existing file is left as it is and the
\* incoming one is written as <stem>-<YYYYMMDD-HHMMSS><ext>.
C8_CollisionSafe ==
  [][\A w \in Workers :
       LET n == ctx[w].path
           t == ExpectedStamped(n, clock)
       IN  /\ (ctx[w].pc = "copy" /\ ctx'[w].pc = "archive") =>
                IF CopyKey(n) \notin DOMAIN mods
                THEN mods' = Put(mods, CopyKey(n), staging[n].content)
                ELSE CopyKey(t) \notin DOMAIN mods =>
                       /\ mods'[CopyKey(n)] = mods[CopyKey(n)]
                       /\ mods' = Put(mods, CopyKey(t), staging[n].content)
           /\ (/\ ctx[w].pc \in {"archive", "fail"}
               /\ Stepped(w)
               /\ n \in DOMAIN staging
               /\ n \notin DOMAIN staging') =>
                LET b == IF ctx[w].pc = "archive" THEN archive ELSE failed
                    b2 == IF ctx[w].pc = "archive" THEN archive' ELSE failed'
                IN  IF n \notin DOMAIN b
                    THEN b2[n] = staging[n].content
                    ELSE t \notin DOMAIN b =>
                           /\ b2[n] = b[n]
                           /\ t \in DOMAIN b2
                           /\ b2[t] = staging[n].content]_vars

\* mod.jar met an older mod.jar in mods and in archive: both older files are
\* as they were and the new one is beside them under the timestamped name
C8_Witness ==
  /\ mods = Put(Put(EmptyDir, CopyKey(ModJar), Old),
                CopyKey(ExpectedStamped(ModJar, 1)), Blob(1))
  /\ archive[ModJar] = Old
  /\ ExpectedStamped(ModJar, 2) \in DOMAIN archive
  /\ archive[ExpectedStamped(ModJar, 2)] = Blob(1)

\* this step of thread w moves its file out of staging
MovesOut(w) ==
  /\ Stepped(w)
  /\ ctx[w].pc \in {"archive", "fail"}
  /\ ctx[w].path \in DOMAIN staging
  /\ ctx[w].path \notin DOMAIN staging'

\* C9: the archive step is reached only once install_file has returned or
\* raised; the mods directory is written only by a handler that is inside
\* install_file; the step that moves the file out of staging writes nothing
\* into mods and ends the handler; and on the success path as on the failure
\* path the file is moved whenever nothing is broken and it is still there.
C9_InstallBeforeArchive ==
  /\ [](\A w \in Workers :
          ctx[w].pc \in {"archive", "fail"} => ctx[w].inst \in {"returned", "raised"})
  /\ [][/\ mods' # mods =>
             \E w \in Workers : /\ Stepped(w)
                                /\ ctx[w].pc \in {"copy", "zip_extract"}
                                /\ ctx[w].inst = "no"
        /\ \A w \in Workers :
             /\ MovesOut(w) => (mods' = mods /\ ctx'[w].pc = "idle")
             /\ (/\ ctx[w].pc \in {"archive", "fail"}
                 /\ Stepped(w)
                 /\ fault = "none"
                 /\ ctx[w].path \in DOMAIN staging) => MovesOut(w)]_vars

\* both paths were taken to the end: a copied .jar moved to archive and a
\* rejected archive moved to failed
C9_Witness ==
  /\ \E k \in DOMAIN mods : mods[k] = Blob(1)
  /\ \E m \in DOMAIN archive : archive[m] = Blob(1)
  /\ \E m \in DOMAIN failed : failed[m].tag = "zip"
  /\ \A w \in Workers : ctx[w].pc = "idle"

\* the file of thread w is mid-pipeline: its probe has begun and its archive
\* step has not ended
MidPipeline(w) == ctx[w].pc # "idle"

\* C10: at most one file is mid-pipeline.
C10_Serialized == ~(MidPipeline("main") /\ MidPipeline("obs"))

\* the observer thread handles a created file after the reconciliation pass
\* installed another
C10_Witness ==
  /\ ctx["obs"].pc = "probe"
  /\ ctx["obs"].path = ModJar
  /\ \E m \in DOMAIN archive : archive[m].tag = "zip"


C11_AsStated ==
  [][/\ (~interrupted /\ interrupted' /\ ctx["main"].pc = "probe") =>
          (mainpc' = "killed" /\ UNCHANGED <<staging, mods, archive, failed>>)
     /\ (~interrupted /\ interrupted' /\ ctx["obs"].pc = "probe") => mainpc' = "stop"
     /\ \A w \in Workers :
          (ctx[w].intr /\ Stepped(w)) => UNCHANGED <<staging, mods, archive, failed>>]_vars


\* the run of run_watcher is over: it returned, or an exception ended it
Finished == mainpc \in {"exit", "crashed", "killed"}

\* C12: with the once flag set the observer is never started, no creation
\* event is ever queued or handled, after the reconciliation pass run_watcher
\* only returns, every stability probe on the way is decided within the turns
\* its timeout allows, and the run eventually finishes.
C12_OnceTerminates ==
  /\ [](once => (obs.state = "none" /\ obs.queue = << >> /\ ctx["obs"].pc = "idle"))
  /\ [](\A w \in Workers :
          ctx[w].pc = "probe" =>
            WaitLoop(ProbeEnter(0), ctx[w].path \in DOMAIN staging,
                     ctx[w].path \in DOMAIN staging /\ staging[ctx[w].path].growing,
                     0, MaxTurns).ret \in {"true", "false"})
  /\ [][(once /\ mainpc = "ret" /\ mainpc' # "ret") => mainpc' \in {"exit", "killed"}]_vars
  /\ once ~> Finished

\* a once run has returned after a pass in which a download that never
\* settled was timed out and another file was installed
C12_Witness ==
  /\ once
  /\ mainpc = "exit"
  /\ \E m \in DOMAIN failed : failed[m] = Text(<<TimedOut, "\n">>)
  /\ \E m \in DOMAIN archive : archive[m].tag = "zip"


(***************************************************************************)
(* is_interesting on more names: the runs of run_watcher on a staging      *)
(* directory that holds any of these names, with nothing else going wrong. *)
(***************************************************************************)
FilterNames ==
  {ModJar, UpperJar, BundleZip, PartialPart, DotZip, NotesTxt, SubDir, TmpJar, CrZip,
   JarWord}

FilterStagings ==
  UNION {{f \in [S -> UNION {EntriesFor(n) : n \in FilterNames}] :
            \A n \in S : f[n] \in EntriesFor(n)} :
         S \in {T \in SUBSET FilterNames : Cardinality(T) <= MaxInitFiles}}

FilterInit ==
  /\ staging \in FilterStagings
  /\ mods = EmptyDir
  /\ archive = EmptyDir
  /\ failed = EmptyDir
  /\ clock = 1
  /\ fault = "none"
  /\ once \in BOOLEAN
  /\ mainpc = "start"
  /\ listing = << >>
  /\ idx = 0
  /\ obs = [state |-> "none", stop |-> FALSE, queue |-> << >>]
  /\ ctx = [w \in Workers |-> IdleCtx]
  /\ interrupted = FALSE
  /\ arrivals = 0
  /\ removals = 0
  /\ ProbeIdle

FilterNext ==
  \/ MainNext
  \/ ObsNext
  \/ ExternalCreate
  \/ Interrupt

FilterSpec == FilterInit /\ [][FilterNext]_vars

\* the names of FilterNames that end, whatever the case of their letters, with
\* .jar or .zip and not with .part, .tmp or .crdownload, found by hand
Recognized == {ModJar, UpperJar, BundleZip, DotZip, SubDir}

\* C13: is_interesting is true of a path exactly when it is a regular file of
\* staging whose name is a recognized one; the handler only ever runs on such
\* a file; and every other entry of staging (partial.jar.part, a directory,
\* notes.txt, ...) stays in staging as it is and never shows up in mods,
\* archive or failed.
C13_Filter ==
  /\ [](\A n \in FilterNames :
          is_interesting(n) <=>
            (n \in DOMAIN staging /\ staging[n].kind = "file" /\ n \in Recognized))
  /\ [](\A w \in Workers :
          ctx[w].pc # "idle" => ctx[w].path \in Recognized \ {SubDir})
  /\ [](\A n \in (FilterNames \ Recognized) \cup {SubDir} :
          /\ n \notin DOMAIN archive
          /\ n \notin DOMAIN failed
          /\ CopyKey(n) \notin DOMAIN mods)
  /\ [][\A n \in DOMAIN staging :
          ~(n \in Recognized /\ staging[n].kind = "file") =>
            (n \in DOMAIN staging' /\ staging'[n] = staging[n])]_vars

\* the pass is over: MOD.JAR was installed and archived, partial.jar.part is
\* where it was
C13_Witness ==
  /\ mainpc \in {"exit", "sleep"}
  /\ PartialPart \in DOMAIN staging
  /\ UpperJar \in DOMAIN archive
  /\ CopyKey(UpperJar) \in DOMAIN mods


(***************************************************************************)
(* Collisions: the handler of the reconciliation pass on one file, when    *)
(* mods, archive and failed each hold nothing, an older file of the same   *)
(* name, or that and a file of the timestamped name of second 1 as well.   *)
(***************************************************************************)
Older == Blob(8)

TakenMods(n, level) ==
  IF level = 0 THEN EmptyDir
  ELSE IF level = 1 THEN Put(EmptyDir, CopyKey(n), Old)
  ELSE Put(Put(EmptyDir, CopyKey(n), Old), CopyKey(Stamped(n, 1)), Older)

TakenBucket(n, level) ==
  IF level = 0 THEN EmptyDir
  ELSE IF level = 1 THEN Put(EmptyDir, n, Old)
  ELSE Put(Put(EmptyDir, n, Old), Stamped(n, 1), Older)

CollisionInit ==
  /\ \E n \in {ModJar, BundleZip} : \E e \in EntriesFor(n) : \E lv \in [1 .. 3 -> 0 .. 2] :
       /\ staging = Put(EmptyDir, n, e)
       /\ mods = TakenMods(n, lv[1])
       /\ archive = TakenBucket(n, lv[2])
       /\ failed = TakenBucket(n, lv[3])
       /\ listing = <<n>>
  /\ clock = 1
  /\ fault = "none"
  /\ once = TRUE
  /\ mainpc = "loop"
  /\ idx = 1
  /\ obs = [state |-> "none", stop |-> FALSE, queue |-> << >>]
  /\ ctx = [w \in Workers |-> IdleCtx]
  /\ interrupted = FALSE
  /\ arrivals = 0
  /\ removals = 0
  /\ ProbeIdle

CollisionNext ==
  \/ MainLoop
  \/ MainHandler
  \/ MainOnce
  \/ Tick
  \/ InjectFault

CollisionSpec == CollisionInit /\ [][CollisionNext]_vars

\* C14: when the destination holds both a file of the source's name and one of
\* the timestamped name of the current second, the .jar copy and the move into
\* archive or failed either write over the file of that timestamped name,
\* leaving the one of the original name as it is and creating no file of
\* another name (but the sidecar beside a failed file), or raise and change
\* nothing at the destination.
C14_SameSecond ==
  [][\A w \in Workers :
       LET n == ctx[w].path
           t == ExpectedStamped(n, clock)
       IN  /\ (/\ ctx[w].pc = "copy"
               /\ Stepped(w)
               /\ n \in DOMAIN staging
               /\ {CopyKey(n), CopyKey(t)} \subseteq DOMAIN mods) =>
                \/ mods' = [mods EXCEPT ![CopyKey(t)] = staging[n].content]
                \/ mods' = mods /\ ctx'[w].pc = "fail"
           /\ (/\ ctx[w].pc \in {"archive", "fail"}
               /\ Stepped(w)
               /\ n \in DOMAIN staging) =>
                LET b == IF ctx[w].pc = "archive" THEN archive ELSE failed
                    b2 == IF ctx[w].pc = "archive" THEN archive' ELSE failed'
                IN  {n, t} \subseteq DOMAIN b =>
                      \/ /\ n \notin DOMAIN staging'
                         /\ b2[t] = staging[n].content
                         /\ b2[n] = b[n]
                         /\ DOMAIN b2 \subseteq DOMAIN b \cup {SidecarOf(t)}
                      \/ b2 = b /\ staging' = staging]_vars

\* a third mod.jar of the same second took the place of the second one, in
\* mods and in archive
C14_Witness ==
  /\ mods = Put(Put(EmptyDir, CopyKey(ModJar), Old),
                CopyKey(ExpectedStamped(ModJar, 1)), Blob(1))
  /\ archive = Put(Put(EmptyDir, ModJar, Old), ExpectedStamped(ModJar, 1), Blob(1))
  /\ staging = EmptyDir


(***************************************************************************)
(* Reconciliation run again: once process_existing has returned it is      *)
(* called another time, any number of times.                               *)
(***************************************************************************)
RerunInit == Init /\ once

\* lines 167-175: process_existing is entered again
Rerun ==
  /\ mainpc = "ret"
  /\ mainpc' = "list"
  /\ listing' = << >>
  /\ idx' = 0
  /\ UNCHANGED <<fsvars, envvars, once, obs, ctx, probevars>>

RerunNext ==
  \/ MainEnsure
  \/ MainList
  \/ MainLoop
  \/ MainHandler
  \/ MainOnce
  \/ Rerun
  \/ InjectFault
  \/ Tick

RerunSpec == RerunInit /\ [][RerunNext]_vars

\* C15: a call of process_existing on a staging directory that holds no entry
\* takes an empty listing, runs no handler, changes none of staging, mods,
\* archive and failed, and returns without an error, however many calls came
\* before it.
C15_EmptyNoOp ==
  [][(staging = EmptyDir /\ mainpc \in {"list", "loop"}) =>
       /\ UNCHANGED <<staging, mods, archive, failed>>
       /\ ctx' = ctx
       /\ mainpc' \in {"list", "loop", "ret"}
       /\ mainpc = "list" => listing' = << >>
       /\ (mainpc = "loop" /\ mainpc' = "loop") => UNCHANGED <<idx, listing>>]_vars

\* a later call of process_existing has returned from an empty staging
\* directory: the file in archive was put there by an earlier call
C15_Witness ==
  /\ mainpc = "ret"
  /\ listing = << >>
  /\ staging = EmptyDir
  /\ \E m \in DOMAIN archive : archive[m] = Blob(1)
  /\ \E k \in DOMAIN mods : mods[k] = Blob(1)


\* the polls after which the file may go missing, in the check of C16
VanishAfter == 0 .. 3

\* C16: whatever number of polls saw the file before it went missing, the
\* next poll returns failure at its own time, before the timeout; a handler
\* whose probe finds the file missing goes to the except block without
\* writing anything, and if the file is still missing when archive(ok=False)
\* runs, that call raises, nothing is written into mods, archive or failed,
\* and the handler returns (the loop and the observer go on).
C16_Vanished ==
  /\ [](\A w \in Workers :
          (ctx[w].pc = "probe" /\ ctx[w].path \notin DOMAIN staging) =>
            \A k \in VanishAfter :
              LET p == WaitLoop(ProbeEnter(0), TRUE, TRUE, 0, k)
                  q == Turn(p, FALSE, 0, k * PollInterval)
              IN  /\ p.ret = "run"
                  /\ q.ret = "false"
                  /\ k * PollInterval < POLL_TIMEOUT_SECONDS)
  /\ [][\A w \in Workers :
          /\ (ctx[w].pc = "probe" /\ Stepped(w) /\ ctx[w].path \notin DOMAIN staging) =>
               /\ ctx'[w].pc = "fail"
               /\ UNCHANGED <<staging, mods, archive, failed>>
          /\ (ctx[w].pc = "fail" /\ Stepped(w) /\ ctx[w].path \notin DOMAIN staging) =>
               /\ ctx'[w].pc = "idle"
               /\ UNCHANGED <<staging, mods, archive, failed>>
               /\ mainpc' = mainpc
               /\ obs'.state = obs.state]_vars

\* the probe of the observer's handler found its file removed: the except
\* block is about to archive a file that is not there
C16_Witness ==
  /\ ctx["obs"].pc = "fail"
  /\ ctx["obs"].inst = "raised"
  /\ ctx["obs"].reason = TimedOut
  /\ ctx["obs"].path \notin DOMAIN staging
  /\ removals = 1
  /\ fault = "none"


\* the live watch has nothing to do: the main thread sleeps, the observer runs
\* with no event in its queue and no handler in progress
WatchIdle ==
  /\ mainpc = "sleep"
  /\ obs.state = "running"
  /\ obs.queue = << >>
  /\ ctx["obs"].pc = "idle"

\* C17: no arrival is missed in watch mode; so whenever the live watch has
\* nothing left to do and nothing has gone wrong in the filesystem, no
\* interesting file is waiting in staging (each one was run through the
\* pipeline, which moved it out).
C17_AsStated ==
  (WatchIdle /\ fault = "none") => \A n \in DOMAIN staging : ~is_interesting(n)


\* C18: a handler moves its file into the failed directory only when the
\* install step of that call raised, never after install_file returned.
C18_AsStated ==
  [][\A w \in Workers :
       (/\ ctx[w].pc = "fail"
        /\ Stepped(w)
        /\ ctx[w].path \in DOMAIN staging
        /\ ctx[w].path \notin DOMAIN staging'
        /\ failed' # failed) => ctx[w].inst = "raised"]_vars


\* the content c of a staging file is in the mods directory d: the copy of a
\* .jar under some name, or every member of a .zip at its path
InMods(c, d) ==
  IF c.tag = "zip"
  THEN \A i \in DOMAIN c.members :
         /\ MemberKey(c.members[i]) \in DOMAIN d
         /\ d[MemberKey(c.members[i])] = Blob(c.members[i].data)
  ELSE \E k \in DOMAIN d : d[k] = c

\* C19: when a handler moves its file into the archive directory, the content
\* of that file has been installed into mods, whatever name is_interesting
\* accepted.
C19_AsStated ==
  [][\A w \in Workers :
       (/\ ctx[w].pc = "archive"
        /\ Stepped(w)
        /\ ctx[w].path \in DOMAIN staging
        /\ ctx[w].path \notin DOMAIN staging'
        /\ archive' # archive) => InMods(staging[ctx[w].path].content, mods)]_vars

====
